---- MODULE Spec2Model ----
(***************************************************************************)
(* SFMesh exporter (src/sfmesh/__init__.py): the two-pass raw encoder      *)
(* (write_header, write_objects), the container packer (write_sfmesh) and  *)
(* the batch driver (ExportSFMesh.execute), as a state machine over byte   *)
(* sequences.                                                              *)
(***************************************************************************)
EXTENDS Integers, Sequences, FiniteSets, TLC

VARIABLES
    objects,        \* the resolved object list of execute (scene.objects)
    batch_mode,     \* "OFF" | "OBJECT"
    write_raw_file, \* BOOLEAN
    pc,             \* position of the single thread of control
    batch_i,        \* index of execute's for loop over objects (1-based)
    cur,            \* `objects` argument of the running write_sfmesh call
    filepath,       \* `filepath` argument of the running write_sfmesh call
    buffer,         \* io.BytesIO contents, a sequence of bytes
    loop_i,         \* index of the running pass's for loop over cur (1-based)
    lzc_string,     \* lzc_string of write_sfmesh (after line 162 / line 163)
    lzc_out,        \* what lzma.compress returned, kept for comparison
    b64_string,     \* b64_string of write_sfmesh
    files,          \* storage: path -> [content, complete]
    reports,        \* names of the objects self.report warned about
    err,            \* exception propagating out of execute, or "none"
    passes,         \* passes of the running call that have returned
    blocks,         \* per pass, the indexes of cur a block was written for
    eval_failed,    \* per pass, the index of cur whose to_mesh failed, or 0
    touched,        \* the running call has opened its file or compressed
    invoked         \* indexes of objects execute has called write_sfmesh for

vars == <<objects, batch_mode, write_raw_file, pc, batch_i, cur, filepath,
          buffer, loop_i, lzc_string, lzc_out, b64_string, files, reports,
          err, passes, blocks, eval_failed, touched, invoked>>

----------------------------------------------------------------------------
(* Bounds *)

\* longest object list handed to execute
MaxObjects == 2
\* longest LZMA payload (bytes after the 13-byte header) the compressor returns
MaxPayload == 12

----------------------------------------------------------------------------
(* Byte-level helpers: struct.pack, str.encode, int.to_bytes, base64 *)

Pow2_16 == 65536

RECURSIVE Pow(_, _)
Pow(b, e) == IF e = 0 THEN 1 ELSE b * Pow(b, e - 1)

\* n as w little-endian bytes
RECURSIVE LittleEndian(_, _)
LittleEndian(n, w) ==
    IF w = 0 THEN <<>> ELSE <<n % 256>> \o LittleEndian(n \div 256, w - 1)

\* struct.pack("<BBB", a, b, c)
PackBBB(a, b, c) == <<a, b, c>>

\* struct.pack("<I", n)
PackI(n) == LittleEndian(n, 4)

\* struct.pack("<H", n) raises struct.error unless 0 <= n <= 65535
PackHFits(n) == n >= 0 /\ n < Pow2_16

PackH(n) == LittleEndian(n, 2)

\* uncompressed_size.to_bytes(8, "little")
ToBytes8(n) == LittleEndian(n, 8)

\* UTF-8 encoding of one code point
Utf8Char(c) ==
    IF c < 128 THEN <<c>>
    ELSE IF c < 2048 THEN <<192 + (c \div 64), 128 + (c % 64)>>
    ELSE IF c < 65536
         THEN <<224 + (c \div 4096), 128 + ((c \div 64) % 64), 128 + (c % 64)>>
         ELSE <<240 + (c \div 262144), 128 + ((c \div 4096) % 64),
                128 + ((c \div 64) % 64), 128 + (c % 64)>>

\* name.encode("utf-8"), name a sequence of code points
RECURSIVE Utf8(_)
Utf8(s) == IF s = <<>> THEN <<>> ELSE Utf8Char(Head(s)) \o Utf8(Tail(s))

\* IEEE-754 binary32 of an integer-valued float x, -15 <= x <= 15, as the 4
\* little-endian bytes struct.pack("<f", x) gives
FloatExp(m) == IF m >= 8 THEN 3 ELSE IF m >= 4 THEN 2 ELSE IF m >= 2 THEN 1 ELSE 0

PackF(x) ==
    LET m    == IF x < 0 THEN -x ELSE x
        e    == FloatExp(m)
        bits == IF m = 0 THEN 0
                ELSE ((127 + e) * Pow(2, 23)) + ((m - Pow(2, e)) * Pow(2, 23 - e))
        le   == LittleEndian(bits, 4)
    IN  IF x < 0 THEN [le EXCEPT ![4] = @ + 128] ELSE le

\* struct.pack("<3f", a, b, c) and struct.pack("<2f", a, b)
Pack3f(v) == PackF(v[1]) \o PackF(v[2]) \o PackF(v[3])

Pack2f(v) == PackF(v[1]) \o PackF(v[2])

\* one character of the base64 alphabet, as its ASCII code
B64Char(v) ==
    IF v < 26 THEN 65 + v
    ELSE IF v < 52 THEN 97 + (v - 26)
    ELSE IF v < 62 THEN 48 + (v - 52)
    ELSE IF v = 62 THEN 43 ELSE 47

\* base64.b64encode(s)
RECURSIVE B64Encode(_)
B64Encode(s) ==
    IF Len(s) = 0 THEN <<>>
    ELSE IF Len(s) = 1
    THEN <<B64Char(s[1] \div 4), B64Char((s[1] % 4) * 16), 61, 61>>
    ELSE IF Len(s) = 2
    THEN <<B64Char(s[1] \div 4),
           B64Char(((s[1] % 4) * 16) + (s[2] \div 16)),
           B64Char((s[2] % 16) * 4), 61>>
    ELSE <<B64Char(s[1] \div 4),
           B64Char(((s[1] % 4) * 16) + (s[2] \div 16)),
           B64Char(((s[2] % 16) * 4) + (s[3] \div 64)),
           B64Char(s[3] % 64)>> \o B64Encode(SubSeq(s, 4, Len(s)))

\* reversed(t)
Reversed(t) == [i \in 1..Len(t) |-> t[Len(t) + 1 - i]]

\* Python slices s[:k] and s[k:]
SliceTo(s, k) == SubSeq(s, 1, IF k < Len(s) THEN k ELSE Len(s))

SliceFrom(s, k) == SubSeq(s, k + 1, Len(s))

----------------------------------------------------------------------------
(* The host's data: evaluated meshes and scene objects.  A mesh is what    *)
(* to_mesh() hands back after triangulation and transformation (lines      *)
(* 91-102); indexes are 0-based as in Python.                              *)

MeshIds == {"NoTris", "Tri", "Quad", "Big"}

\* mesh.vertices: co and normal of each vertex
MeshVertices(m) ==
    IF m = "Quad"
    THEN << [co |-> <<0, 0, 0>>,  normal |-> <<0, 0, -1>>],
            [co |-> <<2, 0, 0>>,  normal |-> <<0, -1, 0>>],
            [co |-> <<2, 3, 0>>,  normal |-> <<-1, 0, 0>>],
            [co |-> <<0, 3, -4>>, normal |-> <<1, 0, 0>>] >>
    ELSE << [co |-> <<0, 0, 0>>, normal |-> <<0, 0, 1>>],
            [co |-> <<1, 0, 0>>, normal |-> <<0, 1, 0>>],
            [co |-> <<0, 1, 5>>, normal |-> <<1, 0, 0>>] >>

\* mesh.loops: vertex_index and tangent of each loop
MeshLoops(m) ==
    IF m = "Quad"
    THEN << [vertex_index |-> 0, tangent |-> <<1, 0, 0>>],
            [vertex_index |-> 1, tangent |-> <<0, 1, 0>>],
            [vertex_index |-> 2, tangent |-> <<0, 0, 1>>],
            [vertex_index |-> 0, tangent |-> <<-1, 0, 0>>],
            [vertex_index |-> 2, tangent |-> <<0, -1, 0>>],
            [vertex_index |-> 3, tangent |-> <<0, 0, -1>>] >>
    ELSE << [vertex_index |-> 0, tangent |-> <<1, 0, 0>>],
            [vertex_index |-> 1, tangent |-> <<0, 1, 0>>],
            [vertex_index |-> 2, tangent |-> <<0, 0, 1>>] >>

\* mesh.uv_layers.active.data: uv of each loop
MeshUV(m) ==
    IF m = "Quad"
    THEN << <<0, 0>>, <<1, 0>>, <<1, 1>>, <<0, 2>>, <<3, 1>>, <<0, 1>> >>
    ELSE << <<0, 0>>, <<1, 0>>, <<0, 1>> >>

\* mesh.loop_triangles: the loops of each triangle
MeshLoopTriangles(m) ==
    CASE m = "NoTris" -> <<>>
      [] m = "Tri"    -> << [loops |-> <<0, 1, 2>>] >>
      [] m = "Quad"   -> << [loops |-> <<0, 1, 2>>], [loops |-> <<3, 4, 5>>] >>
      [] m = "Big"    -> [t \in 1..Pow2_16 |-> [loops |-> <<0, 1, 2>>]]

\* Scene objects.  name is a sequence of code points (unique in a scene),
\* type is obj.type, to_mesh is the outcome of mesh_owner.to_mesh(): a mesh,
\* a RuntimeError, or None.
ObjectPool ==
    { [name |-> <<67, 117, 98, 101>>, type |-> "MESH",   to_mesh |-> "mesh",
       mesh |-> "Quad"],
      [name |-> <<233>>,              type |-> "MESH",   to_mesh |-> "mesh",
       mesh |-> "Tri"],
      [name |-> <<80>>,               type |-> "MESH",   to_mesh |-> "mesh",
       mesh |-> "NoTris"],
      [name |-> <<66, 105, 103>>,     type |-> "MESH",   to_mesh |-> "mesh",
       mesh |-> "Big"],
      [name |-> <<8364, 118>>,        type |-> "CURVE",  to_mesh |-> "mesh",
       mesh |-> "Tri"],
      [name |-> <<67, 97, 109>>,      type |-> "CAMERA", to_mesh |-> "RuntimeError",
       mesh |-> "NoTris"],
      [name |-> <<78, 46>>,           type |-> "MESH",   to_mesh |-> "None",
       mesh |-> "NoTris"] }

\* lists of distinct scene objects, at most MaxObjects long
ObjectLists ==
    UNION { { s \in [1..n -> ObjectPool] :
                \A i, j \in 1..n : i # j => s[i] # s[j] } : n \in 0..MaxObjects }

----------------------------------------------------------------------------
(* Library calls of the packer and of execute *)

\* lzma.compress(data, format=FORMAT_ALONE, preset=9): the 13-byte header
\* (properties 0x5D, dictionary size 2^26, size field all ones) and a payload
\* that depends on the data; k is the payload's length
LzmaCompress(data, k) ==
    <<93, 0, 0, 0, 4, 255, 255, 255, 255, 255, 255, 255, 255>>
    \o [i \in 1..k |-> (Len(data) + (85 * i)) % 256]

LzmaPayloadLens == 10..MaxPayload

\* bpy.path.clean_name(name): everything but A-Z, a-z, 0-9 becomes "_"
CleanName(name) ==
    [i \in 1..Len(name) |->
        IF \/ name[i] \in 48..57
           \/ name[i] \in 65..90
           \/ name[i] \in 97..122
        THEN name[i] ELSE 95]

\* filepath_ext of execute
FilepathExt == IF write_raw_file THEN ".sfmesh" ELSE ".txt"

\* b'return "' and b'"'
ReturnQuote == <<114, 101, 116, 117, 114, 110, 32, 34>>

Quote == <<34>>

NoFiles == [p \in {} |-> <<>>]

----------------------------------------------------------------------------
(* The encoder's pure parts *)

\* lines 109-126: the four writes for one loop of a triangle
VertexRecord(m, loop_index) ==
    LET loop   == MeshLoops(m)[loop_index + 1]
        vertex == MeshVertices(m)[loop.vertex_index + 1]
        uv     == MeshUV(m)[loop_index + 1]
    IN  Pack3f(vertex.co) \o Pack3f(vertex.normal) \o Pack2f(uv)
        \o Pack3f(loop.tangent)

\* lines 108-126: the inner for loop over reversed(triangle.loops)
RECURSIVE LoopRecords(_, _)
LoopRecords(m, loops) ==
    IF loops = <<>> THEN <<>>
    ELSE VertexRecord(m, Head(loops)) \o LoopRecords(m, Tail(loops))

\* the loops taken in their input order
TriangleRecordsForward(m, triangle) == LoopRecords(m, triangle.loops)

TriangleRecords(m, triangle) == LoopRecords(m, Reversed(triangle.loops))

\* lines 107-126: the for loop over mesh.loop_triangles
RECURSIVE TrianglesBytes(_, _)
TrianglesBytes(m, tris) ==
    IF tris = <<>> THEN <<>>
    ELSE TriangleRecords(m, Head(tris)) \o TrianglesBytes(m, Tail(tris))

\* line 33: sum(1 for obj in objects if obj.type == "MESH")
NumObjects(objs) == Cardinality({i \in 1..Len(objs) : objs[i].type = "MESH"})

\* lines 28-34: version, options, object count
HeaderPreamble(objs) == PackBBB(1, 0, 0) \o PackI(0) \o PackI(NumObjects(objs))

\* lines 55, 56: num_tris and the warning test
NumTris(obj) == Len(MeshLoopTriangles(obj.mesh))

TooManyTriangles(n) == n >= Pow2_16

\* the length of the name counted in characters, not bytes
NameBlockChars(obj) == PackI(Len(obj.name)) \o Utf8(obj.name)

\* lines 60-62: name length and name
NameBlock(obj) == PackI(Len(Utf8(obj.name))) \o Utf8(obj.name)

----------------------------------------------------------------------------
(* State machine *)

Init ==
    /\ objects \in ObjectLists
    /\ batch_mode \in {"OFF", "OBJECT"}
    /\ write_raw_file \in BOOLEAN
    /\ pc = "execute"
    /\ batch_i = 0
    /\ cur = <<>>
    /\ filepath = [name |-> <<>>, ext |-> ""]
    /\ buffer = <<>>
    /\ loop_i = 0
    /\ lzc_string = <<>>
    /\ lzc_out = <<>>
    /\ b64_string = <<>>
    /\ files = NoFiles
    /\ reports = {}
    /\ err = "none"
    /\ passes = {}
    /\ blocks = [header |-> {}, objects |-> {}]
    /\ eval_failed = [header |-> 0, objects |-> 0]
    /\ touched = FALSE
    /\ invoked = {}

\* lines 151-152: a call of write_sfmesh opens a fresh buffer and enters
\* write_sfmesh_raw, which enters write_header
Call(path, objs) ==
    /\ cur' = objs
    /\ filepath' = path
    /\ buffer' = <<>>
    /\ loop_i' = 0
    /\ lzc_string' = <<>>
    /\ lzc_out' = <<>>
    /\ b64_string' = <<>>
    /\ passes' = {}
    /\ blocks' = [header |-> {}, objects |-> {}]
    /\ eval_failed' = [header |-> 0, objects |-> 0]
    /\ touched' = FALSE
    /\ pc' = "write_header"

\* write_sfmesh returns to execute: line 286 or the next turn of line 275
Return ==
    IF batch_mode = "OFF"
    THEN pc' = "finished" /\ batch_i' = batch_i
    ELSE pc' = "batch_loop" /\ batch_i' = batch_i + 1

\* lines 246-274: execute up to the dispatch on batch_mode
Execute ==
    /\ pc = "execute"
    /\ IF batch_mode = "OFF"
       THEN /\ Call([name |-> <<>>, ext |-> FilepathExt], objects)
            /\ invoked' = 1..Len(objects)
            /\ batch_i' = batch_i
       ELSE /\ pc' = "batch_loop"
            /\ batch_i' = 1
            /\ UNCHANGED <<cur, filepath, buffer, loop_i, lzc_string, lzc_out,
                           b64_string, passes, blocks, eval_failed, touched,
                           invoked>>
    /\ UNCHANGED <<objects, batch_mode, write_raw_file, files, reports, err>>

\* lines 275-284: one turn of the per-object loop
BatchLoop ==
    /\ pc = "batch_loop"
    /\ batch_i <= Len(objects)
    /\ Call([name |-> CleanName(objects[batch_i].name), ext |-> FilepathExt],
            <<objects[batch_i]>>)
    /\ invoked' = invoked \cup {batch_i}
    /\ UNCHANGED <<objects, batch_mode, write_raw_file, batch_i, files,
                   reports, err>>

\* lines 275, 286: the per-object loop is exhausted
BatchDone ==
    /\ pc = "batch_loop"
    /\ batch_i > Len(objects)
    /\ pc' = "finished"
    /\ UNCHANGED <<objects, batch_mode, write_raw_file, batch_i, cur, filepath,
                   buffer, loop_i, lzc_string, lzc_out, b64_string, files,
                   reports, err, passes, blocks, eval_failed, touched, invoked>>

\* write_header streaming to storage: the file is opened before the passes
WriteHeaderBeginStreaming ==
    /\ pc = "write_header"
    /\ buffer' = buffer \o HeaderPreamble(cur)
    /\ loop_i' = 1
    /\ pc' = "header_loop"
    /\ touched' = TRUE
    /\ files' = (filepath :> [content |-> <<>>, complete |-> FALSE]) @@ files
    /\ UNCHANGED <<objects, batch_mode, write_raw_file, batch_i, cur, filepath,
                   lzc_string, lzc_out, b64_string, reports, err,
                   passes, blocks, eval_failed, invoked>>

\* lines 27-35: write_header up to its for loop
WriteHeaderBegin ==
    /\ pc = "write_header"
    /\ buffer' = buffer \o HeaderPreamble(cur)
    /\ loop_i' = 1
    /\ pc' = "header_loop"
    /\ UNCHANGED <<objects, batch_mode, write_raw_file, batch_i, cur, filepath,
                   lzc_string, lzc_out, b64_string, files, reports, err,
                   passes, blocks, eval_failed, touched, invoked>>

\* to_mesh fails and the loop goes on to the next object
HeaderEvalFailsSkips ==
    /\ eval_failed' = [eval_failed EXCEPT !.header = loop_i]
    /\ loop_i' = loop_i + 1
    /\ UNCHANGED <<buffer, pc, passes, reports, err, blocks>>

\* lines 45-51: to_mesh raises RuntimeError or returns None, write_header
\* returns and line 135 comes next
HeaderEvalFails ==
    /\ eval_failed' = [eval_failed EXCEPT !.header = loop_i]
    /\ passes' = passes \cup {"header"}
    /\ pc' = "write_objects"
    /\ UNCHANGED <<buffer, loop_i, reports, err, blocks>>

\* lines 35-65: one turn of write_header's loop
HeaderObject ==
    /\ pc = "header_loop"
    /\ loop_i <= Len(cur)
    /\ LET obj == cur[loop_i] IN
       IF obj.to_mesh # "mesh"
       THEN HeaderEvalFails
       ELSE LET num_tris == NumTris(obj) IN
            /\ reports' = IF TooManyTriangles(num_tris)
                          THEN reports \cup {obj.name} ELSE reports
            /\ IF PackHFits(num_tris)
               THEN /\ buffer' = buffer \o NameBlock(obj) \o PackH(num_tris)
                    /\ blocks' = [blocks EXCEPT !.header = @ \cup {loop_i}]
                    /\ loop_i' = loop_i + 1
                    /\ UNCHANGED <<pc, err>>
               ELSE \* line 63: struct.pack raises struct.error
                    /\ buffer' = buffer \o NameBlock(obj)
                    /\ err' = "struct.error"
                    /\ pc' = "raised"
                    /\ UNCHANGED <<blocks, loop_i>>
            /\ UNCHANGED <<eval_failed, passes>>
    /\ UNCHANGED <<objects, batch_mode, write_raw_file, batch_i, cur, filepath,
                   lzc_string, lzc_out, b64_string, files, touched, invoked>>

\* line 35: write_header's loop is exhausted, line 135 comes next
HeaderDone ==
    /\ pc = "header_loop"
    /\ loop_i > Len(cur)
    /\ passes' = passes \cup {"header"}
    /\ pc' = "write_objects"
    /\ UNCHANGED <<objects, batch_mode, write_raw_file, batch_i, cur, filepath,
                   buffer, loop_i, lzc_string, lzc_out, b64_string, files,
                   reports, err, blocks, eval_failed, touched, invoked>>

\* lines 72-73: write_objects up to its for loop
WriteObjectsBegin ==
    /\ pc = "write_objects"
    /\ loop_i' = 1
    /\ pc' = "objects_loop"
    /\ UNCHANGED <<objects, batch_mode, write_raw_file, batch_i, cur, filepath,
                   buffer, lzc_string, lzc_out, b64_string, files, reports,
                   err, passes, blocks, eval_failed, touched, invoked>>

\* lines 83-89: to_mesh raises RuntimeError or returns None, write_objects
\* returns and line 154 comes next
ObjectsEvalFails ==
    /\ eval_failed' = [eval_failed EXCEPT !.objects = loop_i]
    /\ passes' = passes \cup {"objects"}
    /\ pc' = "packer"
    /\ UNCHANGED <<buffer, loop_i, blocks>>

\* lines 73-127: one turn of write_objects' loop
ObjectsObject ==
    /\ pc = "objects_loop"
    /\ loop_i <= Len(cur)
    /\ LET obj == cur[loop_i] IN
       IF obj.to_mesh # "mesh"
       THEN ObjectsEvalFails
       ELSE /\ buffer' = buffer
                         \o TrianglesBytes(obj.mesh, MeshLoopTriangles(obj.mesh))
            /\ blocks' = [blocks EXCEPT !.objects = @ \cup {loop_i}]
            /\ loop_i' = loop_i + 1
            /\ UNCHANGED <<pc, eval_failed, passes>>
    /\ UNCHANGED <<objects, batch_mode, write_raw_file, batch_i, cur, filepath,
                   lzc_string, lzc_out, b64_string, files, reports, err,
                   touched, invoked>>

\* line 73: write_objects' loop is exhausted, line 154 comes next
ObjectsDone ==
    /\ pc = "objects_loop"
    /\ loop_i > Len(cur)
    /\ passes' = passes \cup {"objects"}
    /\ pc' = "packer"
    /\ UNCHANGED <<objects, batch_mode, write_raw_file, batch_i, cur, filepath,
                   buffer, loop_i, lzc_string, lzc_out, b64_string, files,
                   reports, err, blocks, eval_failed, touched, invoked>>

\* outcomes of open(filepath, "wb") followed by the writes: all succeed, open
\* raises OSError, or a write raises OSError
IOFaults == {"none", "open", "write"}

\* the first k of the chunks handed to file.write, joined
RECURSIVE Joined(_, _)
Joined(chunks, k) ==
    IF k = 0 THEN <<>> ELSE Joined(chunks, k - 1) \o chunks[k]

\* lines 155-156 and 170-173: open the file, write the chunks, close it;
\* written is the number of chunks written before a failing write
StoreFile(chunks, fault, written) ==
    /\ touched' = TRUE
    /\ CASE fault = "none" ->
              /\ files' = (filepath :> [content  |-> Joined(chunks, Len(chunks)),
                                        complete |-> TRUE]) @@ files
              /\ err' = err
              /\ Return
         [] fault = "open" ->
              /\ files' = files
              /\ err' = "OSError"
              /\ pc' = "raised"
              /\ batch_i' = batch_i
         [] fault = "write" ->
              /\ files' = (filepath :> [content  |-> Joined(chunks, written),
                                        complete |-> FALSE]) @@ files
              /\ err' = "OSError"
              /\ pc' = "raised"
              /\ batch_i' = batch_i

\* lines 154-156: raw mode
SaveRaw ==
    /\ pc = "packer"
    /\ write_raw_file
    /\ \E fault \in IOFaults : StoreFile(<<buffer>>, fault, 0)
    /\ UNCHANGED <<objects, batch_mode, write_raw_file, cur, filepath, buffer,
                   loop_i, lzc_string, lzc_out, b64_string, reports, passes,
                   blocks, eval_failed, invoked>>

\* lines 158-162: packed mode, lzma.compress returns or raises
Compress ==
    /\ pc = "packer"
    /\ ~write_raw_file
    /\ touched' = TRUE
    /\ \/ \E k \in LzmaPayloadLens :
            /\ lzc_string' = LzmaCompress(buffer, k)
            /\ lzc_out' = LzmaCompress(buffer, k)
            /\ pc' = "patch"
            /\ err' = err
       \/ /\ err' = "LZMAError"
          /\ pc' = "raised"
          /\ UNCHANGED <<lzc_string, lzc_out>>
    /\ UNCHANGED <<objects, batch_mode, write_raw_file, batch_i, cur, filepath,
                   buffer, loop_i, b64_string, files, reports, passes, blocks,
                   eval_failed, invoked>>

\* the patch one byte early
PatchSizeShifted(lzc, uncompressed_size) ==
    SliceTo(lzc, 4) \o ToBytes8(uncompressed_size) \o SliceFrom(lzc, 12)

\* lines 161, 163-167: the size-field patch
PatchSize(lzc, uncompressed_size) ==
    SliceTo(lzc, 5) \o ToBytes8(uncompressed_size) \o SliceFrom(lzc, 13)

Patch ==
    /\ pc = "patch"
    /\ lzc_string' = PatchSize(lzc_string, Len(buffer))
    /\ pc' = "encode"
    /\ UNCHANGED <<objects, batch_mode, write_raw_file, batch_i, cur, filepath,
                   buffer, loop_i, lzc_out, b64_string, files, reports, err,
                   passes, blocks, eval_failed, touched, invoked>>

\* line 169
Encode ==
    /\ pc = "encode"
    /\ b64_string' = B64Encode(lzc_string)
    /\ pc' = "save_packed"
    /\ UNCHANGED <<objects, batch_mode, write_raw_file, batch_i, cur, filepath,
                   buffer, loop_i, lzc_string, lzc_out, files, reports, err,
                   passes, blocks, eval_failed, touched, invoked>>

\* the literal left unclosed
PackedChunksUnclosed == <<ReturnQuote, b64_string>>

\* lines 170-173: the three writes of the packed text file
PackedChunks == <<ReturnQuote, b64_string, Quote>>

SavePacked ==
    /\ pc = "save_packed"
    /\ \E fault \in IOFaults : \E written \in 0..2 :
          /\ fault # "write" => written = 0
          /\ written < Len(PackedChunks)
          /\ StoreFile(PackedChunks, fault, written)
    /\ UNCHANGED <<objects, batch_mode, write_raw_file, cur, filepath, buffer,
                   loop_i, lzc_string, lzc_out, b64_string, reports, passes,
                   blocks, eval_failed, invoked>>

Next ==
    \/ Execute
    \/ BatchLoop
    \/ BatchDone
    \/ WriteHeaderBegin
    \/ HeaderObject
    \/ HeaderDone
    \/ WriteObjectsBegin
    \/ ObjectsObject
    \/ ObjectsDone
    \/ SaveRaw
    \/ Compress
    \/ Patch
    \/ Encode
    \/ SavePacked

Spec == Init /\ [][Next]_vars

----------------------------------------------------------------------------
(* Reading the outputs back: what a decoder of the format sees *)

\* value of a little-endian byte string
RECURSIVE DecodeLE(_)
DecodeLE(s) == IF s = <<>> THEN 0 ELSE Head(s) + (256 * DecodeLE(Tail(s)))

\* value of one base64 character, 64 for the padding character
B64Value(c) ==
    IF c \in 65..90 THEN c - 65
    ELSE IF c \in 97..122 THEN c - 71
    ELSE IF c \in 48..57 THEN c + 4
    ELSE IF c = 43 THEN 62
    ELSE IF c = 47 THEN 63 ELSE 64

\* the bytes a base64 text stands for
RECURSIVE B64Decode(_)
B64Decode(t) ==
    IF Len(t) < 4 THEN <<>>
    ELSE LET a == B64Value(t[1])
             b == B64Value(t[2])
             c == B64Value(t[3])
             d == B64Value(t[4])
             q == <<(a * 4) + (b \div 16)>>
                  \o (IF c = 64 THEN <<>>
                      ELSE <<((b % 16) * 16) + (c \div 4)>>)
                  \o (IF c = 64 \/ d = 64 THEN <<>>
                      ELSE <<((c % 4) * 64) + d>>)
         IN  q \o B64Decode(SubSeq(t, 5, Len(t)))

\* bytes from..to of s, 0-based and inclusive
Bytes(s, from, to) == SubSeq(s, from + 1, to + 1)

\* size of the metadata blocks, and of the body blocks, of objs[1..k]
RECURSIVE MetaSize(_, _)
MetaSize(objs, k) ==
    IF k = 0 THEN 0
    ELSE MetaSize(objs, k - 1) + 4 + Len(Utf8(objs[k].name)) + 2

RECURSIVE BodySize(_, _)
BodySize(objs, k) ==
    IF k = 0 THEN 0
    ELSE BodySize(objs, k - 1) + (132 * Len(MeshLoopTriangles(objs[k].mesh)))

\* both passes of the running call have returned
RawDone == passes = {"header", "objects"}

\* the running call of write_sfmesh has returned to execute
CallReturned == pc \in {"batch_loop", "finished"} /\ touched

\* the object count a decoder reads at offset 7 of the buffer
CountField == DecodeLE(Bytes(buffer, 7, 10))

\* the metadata blocks, and the body blocks, of objs[1..k], in list order
RECURSIVE ExpectedMeta(_, _)
ExpectedMeta(objs, k) ==
    IF k = 0 THEN <<>>
    ELSE ExpectedMeta(objs, k - 1)
         \o PackI(Len(Utf8(objs[k].name))) \o Utf8(objs[k].name)
         \o PackH(Len(MeshLoopTriangles(objs[k].mesh)))

RECURSIVE ExpectedBodies(_, _)
ExpectedBodies(objs, k) ==
    IF k = 0 THEN <<>>
    ELSE ExpectedBodies(objs, k - 1)
         \o TrianglesBytes(objs[k].mesh, MeshLoopTriangles(objs[k].mesh))

\* the triangle-count field a decoder reads at the end of metadata block i
TriCountField(i) ==
    LET end == 11 + MetaSize(cur, i)
    IN  DecodeLE(Bytes(buffer, end - 2, end - 1))

\* p differs from the compressor's output c only in bytes 5 to 12, which hold
\* n as a little-endian 64-bit integer
PatchedFrom(p, c, n) ==
    /\ Len(p) = Len(c)
    /\ Len(p) >= 13
    /\ \A j \in 0..(Len(p) - 1) : j \notin 5..12 => p[j + 1] = c[j + 1]
    /\ DecodeLE(Bytes(p, 5, 12)) = n

\* content is the text literal: return ", base64 of stream, "
PackedText(content, stream) ==
    LET mid == SubSeq(content, 9, Len(content) - 1) IN
    /\ Len(content) >= 9
    /\ SubSeq(content, 1, 8) = <<114, 101, 116, 117, 114, 110, 32, 34>>
    /\ content[Len(content)] = 34
    /\ Len(mid) = 4 * ((Len(stream) + 2) \div 3)
    /\ \A i \in 1..Len(mid) :
          B64Value(mid[i]) < 64 \/ (i > Len(mid) - 2 /\ mid[i] = 61)
    /\ B64Decode(mid) = stream

\* the file of the running call is complete and holds the output format the
\* flag selects
FileHoldsOutput ==
    /\ filepath \in DOMAIN files
    /\ files[filepath].complete
    /\ IF write_raw_file
       THEN files[filepath].content = buffer
       ELSE /\ PackedText(files[filepath].content, lzc_string)
            /\ PatchedFrom(lzc_string, lzc_out, Len(buffer))

----------------------------------------------------------------------------
(* Claims *)

\* C1: once both passes have returned, the object count in the header equals
\* the number of metadata blocks and the number of body blocks written, and
\* no block was written for an object that is not of type MESH.
C1_CountMatchesBlocks ==
    RawDone =>
        /\ CountField = Cardinality(blocks.header)
        /\ CountField = Cardinality(blocks.objects)
        /\ \A i \in blocks.header \cup blocks.objects : cur[i].type = "MESH"

\* C2: write_header never aborts on a triangle count, and the 16-bit field of
\* every object it has passed holds the count modulo 65536.
C2_TriCountWraps ==
    /\ err # "struct.error"
    /\ \A i \in blocks.header : TriCountField(i) = NumTris(cur[i]) % Pow2_16

\* C3: an object is warned about exactly when its triangle count is at least
\* 65536, and once a warning is reported the export is not stopped by the
\* encoder.
C3_WarningNeverStops ==
    /\ \A n \in reports : \E i \in 1..Len(objects) :
          /\ objects[i].name = n
          /\ objects[i].to_mesh = "mesh"
          /\ NumTris(objects[i]) >= Pow2_16
    /\ \A i \in blocks.header :
          NumTris(cur[i]) >= Pow2_16 => cur[i].name \in reports
    /\ reports # {} => err # "struct.error"

\* C4: in packed mode the stream that is base64-encoded has the length of the
\* compressor's output and equals it outside bytes 5 to 12, which hold the
\* length of the raw buffer as a little-endian 64-bit integer.
C4_PatchOnlySizeField ==
    /\ pc \in {"encode", "save_packed"} =>
          PatchedFrom(lzc_string, lzc_out, Len(buffer))
    /\ pc = "save_packed" => B64Decode(b64_string) = lzc_string

C4_Witness ==
    /\ pc = "save_packed"
    /\ cur = <<>>
    /\ Len(buffer) = 11
    /\ lzc_string # lzc_out
    /\ Bytes(lzc_string, 5, 12) = <<11, 0, 0, 0, 0, 0, 0, 0>>

\* C5: when a call of write_sfmesh has returned, its file holds the raw buffer
\* byte for byte if write_raw_file is set, and otherwise exactly return ",
\* the base64 text of the patched compressed stream, and one closing quote.
C5_FlagSelectsOutput == CallReturned => FileHoldsOutput

C5_Witness ==
    /\ CallReturned
    /\ ~write_raw_file
    /\ Len(buffer) > 11
    /\ filepath \in DOMAIN files
    /\ Len(files[filepath].content) = 9 + Len(b64_string)

\* C6: for a list of MESH objects that all evaluate, the raw buffer is the
\* 7-byte preamble, the object count, every metadata block in list order and
\* then every body block in list order, 132 bytes per triangle; an empty list
\* gives 11 bytes.
C6_RawLayout ==
    (/\ RawDone
     /\ \A i \in 1..Len(cur) : cur[i].type = "MESH" /\ cur[i].to_mesh = "mesh")
    => /\ buffer = <<1, 0, 0, 0, 0, 0, 0>> \o PackI(Len(cur))
                   \o ExpectedMeta(cur, Len(cur))
                   \o ExpectedBodies(cur, Len(cur))
       /\ Len(buffer) = 11 + MetaSize(cur, Len(cur)) + BodySize(cur, Len(cur))
       /\ cur = <<>> => Len(buffer) = 11

C6_Witness ==
    /\ RawDone
    /\ Len(cur) = 2
    /\ \A i \in 1..Len(cur) : cur[i].type = "MESH" /\ cur[i].to_mesh = "mesh"
    /\ cur[1].name = <<233>>
    /\ BodySize(cur, 2) = 396

\* C7: in every body block, triangle j of the input occupies the j-th 132
\* bytes, its three 44-byte records are those of loops v2, v1, v0, and each
\* record holds position, normal, UV, tangent in that order.
C7_WindingReversed ==
    \A k \in blocks.objects :
        LET m     == cur[k].mesh
            tris  == MeshLoopTriangles(m)
            start == 11 + MetaSize(cur, Cardinality(blocks.header))
                     + BodySize(cur, k - 1)
        IN  \A j \in 1..Len(tris) : \A v \in 0..2 :
                LET at   == start + ((j - 1) * 132) + (v * 44)
                    li   == tris[j].loops[3 - v]
                    loop == MeshLoops(m)[li + 1]
                    vert == MeshVertices(m)[loop.vertex_index + 1]
                IN  /\ Bytes(buffer, at, at + 11) = Pack3f(vert.co)
                    /\ Bytes(buffer, at + 12, at + 23) = Pack3f(vert.normal)
                    /\ Bytes(buffer, at + 24, at + 31) = Pack2f(MeshUV(m)[li + 1])
                    /\ Bytes(buffer, at + 32, at + 43) = Pack3f(loop.tangent)

C7_Witness ==
    \E k \in blocks.objects :
        /\ k = 2
        /\ Len(MeshLoopTriangles(cur[k].mesh)) = 2
        /\ Len(buffer) >= 11 + MetaSize(cur, 2) + BodySize(cur, 2)

\* C8: in per-object batch mode, when the export of one object fails on I/O
\* or compression, write_sfmesh is still called for every other object.
C8_SiblingsStillExported ==
    (/\ batch_mode = "OBJECT"
     /\ pc = "raised"
     /\ err \in {"OSError", "LZMAError"})
    => invoked = 1..Len(objects)

\* C9: a call neither opens its file nor compresses before both passes have
\* returned, and from then on the buffer of the call no longer changes.
C9_NoStreaming ==
    [][/\ touched' => passes' = {"header", "objects"}
       /\ (touched /\ touched') => buffer' = buffer]_vars

C9_Witness ==
    /\ touched
    /\ filepath \in DOMAIN files
    /\ files[filepath].complete
    /\ Len(buffer) > 11

\* C10: when to_mesh fails for object k in write_header, no exception leaves
\* the encoder, the buffer holds the header and the metadata and body blocks
\* of the objects before k and nothing else, and that buffer is what the
\* packer compresses and saves.
C10_SilentTruncation ==
    LET k == eval_failed.header IN
    k # 0 =>
        /\ err \in {"none", "OSError", "LZMAError"}
        /\ pc = "raised" => touched
        /\ blocks.header = 1..(k - 1)
        /\ blocks.objects \subseteq 1..(k - 1)
        /\ RawDone =>
              /\ eval_failed.objects = k
              /\ buffer = <<1, 0, 0, 0, 0, 0, 0>> \o PackI(NumObjects(cur))
                          \o ExpectedMeta(cur, k - 1)
                          \o ExpectedBodies(cur, k - 1)
        /\ CallReturned => FileHoldsOutput

C10_Witness ==
    /\ eval_failed.header = 2
    /\ CallReturned
    /\ filepath \in DOMAIN files
    /\ files[filepath].complete
    /\ Len(buffer) > 11 + MetaSize(cur, 1)

====
